---------------------------- MODULE Spec2Model ----------------------------
(***************************************************************************)
(* Model of official/resnet/cifar10_main.py: the CIFAR-10 record decoder,  *)
(* the input pipeline, the learning-rate schedule, the model function's    *)
(* train step and metrics, and the train/evaluate driver loop.             *)
(*                                                                         *)
(* Conventions.  A byte string is a sequence of numbers in 0..255.  A      *)
(* rank-3 tensor is a function of index triples <<i, j, k>>, 0-based.      *)
(* The residual network is an external collaborator: it is one of a small  *)
(* family of deterministic functions, and its parameters and normalization *)
(* statistics are abstract version numbers that every update changes.      *)
(* Library calls whose arithmetic is irrational                            *)
(* (per_image_standardization) are kept as tagged terms.                   *)
(***************************************************************************)
EXTENDS Integers, Sequences, FiniteSets, TLC

VARIABLES
    flags,      \* FLAGS: train_steps, steps_per_eval, batch_size
    env,        \* the file system, the library build and the network of the run
    pc,         \* position of main
    cycle,      \* the for loop's induction variable
    ckpt,       \* the checkpoint in model_dir (ModelState at rest)
    sess,       \* the graph/session of the running train or evaluate call
    results,    \* the EvalResults printed so far
    phases,     \* the phases started so far, in order
    ghost,      \* history counters used only by the properties
    fn          \* the call under test of the function-level specifications

vars == <<flags, env, pc, cycle, ckpt, sess, results, phases, ghost, fn>>

driverVars == <<flags, env, pc, cycle, ckpt, sess, results, phases, ghost>>

----------------------------------------------------------------------------
(* Program constants (cifar10_main.py lines 29-35, 62-69, 100).            *)

HEIGHT == 32
WIDTH == 32
DEPTH == 3
NUM_CLASSES == 10
NUM_DATA_BATCHES == 5
NUM_EXAMPLES_PER_EPOCH_FOR_TRAIN == 10000 * NUM_DATA_BATCHES
label_bytes == 1
image_bytes == HEIGHT * WIDTH * DEPTH
record_bytes == label_bytes + image_bytes

(* Bounds of the model.                                                    *)
MaxDelta == 2          \* decode is tried on record_bytes - MaxDelta .. + MaxDelta bytes
MaxFileRecords == 3    \* whole records in a modelled eval file
MaxExtraBytes == 1     \* bytes after the last whole record of a file
MaxBatchSize == 3      \* batch sizes 1..MaxBatchSize in the pipeline and the driver
MaxTrainSteps == 4     \* --train_steps in 1..MaxTrainSteps
MaxStepsPerEval == 2   \* --steps_per_eval in 1..MaxStepsPerEval
NumBNLayers == 2       \* normalization layers of the network (update ops per step)

Min(a, b) == IF a < b THEN a ELSE b
CeilDiv(a, b) == (a + b - 1) \div b

\* F applied to the value of v, which is computed once.
Bind(F(_), v) == CHOOSE y \in {F(x) : x \in {v}} : TRUE

----------------------------------------------------------------------------
(* Tensor primitives, as TensorFlow defines them.                          *)

\* vec[b:e] on a rank-1 tensor: Python slice semantics, the end is clamped.
Slice(vec, b, e) == SubSeq(vec, b + 1, Min(e, Len(vec)))

\* tf.reshape(vec, [d0, d1, d2]): row-major; defined only when sizes agree.
Reshape3(vec, d0, d1, d2) ==
    [idx \in (0 .. d0 - 1) \X (0 .. d1 - 1) \X (0 .. d2 - 1) |->
        vec[(idx[1] * d1 + idx[2]) * d2 + idx[3] + 1]]

\* tf.transpose(t, [1, 2, 0]) of a [d0, d1, d2] tensor: out[j, k, i] = t[i, j, k].
Transpose120(t, d0, d1, d2) ==
    [idx \in (0 .. d1 - 1) \X (0 .. d2 - 1) \X (0 .. d0 - 1) |->
        t[<<idx[3], idx[1], idx[2]>>]]

\* tf.transpose(t, [2, 1, 0]) of a [d0, d1, d2] tensor: out[k, j, i] = t[i, j, k].
Transpose210(t, d0, d1, d2) ==
    [idx \in (0 .. d2 - 1) \X (0 .. d1 - 1) \X (0 .. d0 - 1) |->
        t[<<idx[3], idx[2], idx[1]>>]]

\* tf.one_hot(label, depth): all zeros when label is outside 0..depth-1.
one_hot(label, depth) == [i \in 0 .. depth - 1 |-> IF i = label THEN 1 ELSE 0]

OpError(what) == [ok |-> FALSE, error |-> what]

----------------------------------------------------------------------------
(* dataset_parser (lines 96-119).                                          *)

\* The decoder reading the payload as [DEPTH, WIDTH, HEIGHT] and reordering
\* the axes as [2, 1, 0]: rows and columns are exchanged.
dataset_parser_wrong_axes(value) ==
    LET raw_record == value
        payload == Slice(raw_record, label_bytes, record_bytes)
        depth_major == Reshape3(payload, DEPTH, WIDTH, HEIGHT)
    IN  IF Len(raw_record) = 0
        THEN OpError("InvalidArgument: slice index 0 out of bounds")
        ELSE IF Len(payload) # DEPTH * HEIGHT * WIDTH
        THEN OpError("InvalidArgument: reshape")
        ELSE [ok |-> TRUE,
              image |-> Transpose210(depth_major, DEPTH, WIDTH, HEIGHT),
              label |-> one_hot(raw_record[1], NUM_CLASSES)]

\* value: the bytes of one record.  tf.decode_raw(value, tf.uint8) yields the
\* bytes as a uint8 vector of the same length; the casts to int32 and float32
\* keep every value in 0..255 exactly.  Indexing an empty vector at 0 and
\* reshaping a vector of another size than DEPTH*HEIGHT*WIDTH are errors;
\* the slice [label_bytes:record_bytes] clamps its end to the vector.
dataset_parser(value) ==
    LET raw_record == value
        payload == Slice(raw_record, label_bytes, record_bytes)
        depth_major == Reshape3(payload, DEPTH, HEIGHT, WIDTH)
    IN  IF Len(raw_record) = 0
        THEN OpError("InvalidArgument: slice index 0 out of bounds")
        ELSE IF Len(payload) # DEPTH * HEIGHT * WIDTH
        THEN OpError("InvalidArgument: reshape")
        ELSE [ok |-> TRUE,
              image |-> Transpose120(depth_major, DEPTH, HEIGHT, WIDTH),
              label |-> one_hot(raw_record[1], NUM_CLASSES)]

----------------------------------------------------------------------------
(* Inputs.  Records are built from a label byte and an image whose pixel   *)
(* at (h, w, c) is an affine function of the coordinates, so that every    *)
(* axis reordering is visible in the bytes.                                *)

Patterns == { [a |-> 0, b |-> 0, c |-> 0, s |-> 0],
              [a |-> 7, b |-> 3, c |-> 101, s |-> 5],
              [a |-> 1, b |-> 33, c |-> 17, s |-> 250] }

LabelBytes == {0, NUM_CLASSES - 1, NUM_CLASSES, 255}

PatternImage(p) ==
    [idx \in (0 .. HEIGHT - 1) \X (0 .. WIDTH - 1) \X (0 .. DEPTH - 1) |->
        (p.a * idx[1] + p.b * idx[2] + p.c * idx[3] + p.s) % 256]

\* The record format the parser's comments describe: one label byte, then
\* the image channel by channel, each channel row by row.
Encode(label, image) ==
    <<label>> \o [k \in 1 .. image_bytes |->
        image[<<((k - 1) \div WIDTH) % HEIGHT, (k - 1) % WIDTH, (k - 1) \div (HEIGHT * WIDTH)>>]]

RecordDescs == [label : LabelBytes, pat : Patterns]

\* A table of F over S, its values computed once.
RECURSIVE MakeTable(_, _)
MakeTable(F(_), S) ==
    IF S = {} THEN <<>>
    ELSE LET x == CHOOSE y \in S : TRUE IN (x :> F(x)) @@ MakeTable(F, S \ {x})

EncodeDesc(d) == Encode(d.label, PatternImage(d.pat))
RecordTable == MakeTable(EncodeDesc, RecordDescs)
RecordOf(d) == RecordTable[d]

\* A byte string of any length: a record cut short or followed by filler
\* bytes of value 77.
ValueLengths == {0, 1} \cup (record_bytes - MaxDelta .. record_bytes + MaxDelta)
ValueDescs == [rec : RecordDescs, len : ValueLengths]

ValueBytes(v) ==
    LET r == RecordOf(v.rec)
    IN  [i \in 1 .. v.len |-> IF i <= record_bytes THEN r[i] ELSE 77]

\* A file: whole records followed by extra bytes.
RECURSIVE SeqsUpTo(_, _)
SeqsUpTo(S, n) ==
    IF n = 0 THEN {<<>>}
    ELSE LET shorter == SeqsUpTo(S, n - 1)
         IN  shorter \cup {Append(q, x) : q \in {t \in shorter : Len(t) = n - 1}, x \in S}

FileRecordDescs == { [label |-> 0, pat |-> [a |-> 7, b |-> 3, c |-> 101, s |-> 5]],
                     [label |-> NUM_CLASSES - 1, pat |-> [a |-> 1, b |-> 33, c |-> 17, s |-> 250]] }
FileDescs == [recs : SeqsUpTo(FileRecordDescs, MaxFileRecords), extra : 0 .. MaxExtraBytes]

RECURSIVE Concat(_)
Concat(seqs) == IF seqs = <<>> THEN <<>> ELSE Head(seqs) \o Concat(Tail(seqs))

FileBytesOf(f) ==
    Concat([i \in 1 .. Len(f.recs) |-> RecordOf(f.recs[i])]) \o [i \in 1 .. f.extra |-> 77]
FileTable == MakeTable(FileBytesOf, FileDescs)
FileBytes(f) == FileTable[f]

----------------------------------------------------------------------------
(* record_dataset (lines 72-75): FixedLengthRecordDataset over the files.   *)
(* Each file is cut into record_bytes-sized values, in file order, the     *)
(* files in the order given.  Bytes left after the last whole record of a  *)
(* file are handled by the library build: a build that checks the file     *)
(* length (strict) rejects the file when it is opened; a build that does   *)
(* not hits the end of the file inside a record: the read fails with       *)
(* OutOfRange, the status that also reports the end of the input.          *)

WholeRecords(bytes) ==
    [i \in 1 .. Len(bytes) \div (HEIGHT * WIDTH * DEPTH + 1) |->
        SubSeq(bytes, (i - 1) * (HEIGHT * WIDTH * DEPTH + 1) + 1,
                      i * (HEIGHT * WIDTH * DEPTH + 1))]

RECURSIVE record_dataset(_, _)
record_dataset(contents, strict) ==
    IF contents = <<>> THEN [status |-> "ok", values |-> <<>>]
    ELSE IF Len(Head(contents)) % (HEIGHT * WIDTH * DEPTH + 1) # 0
    THEN IF strict THEN [status |-> "InvalidArgument", values |-> <<>>]
         ELSE [status |-> "OutOfRange", values |-> WholeRecords(Head(contents))]
    ELSE Bind(LAMBDA rest : [status |-> rest.status,
                             values |-> WholeRecords(Head(contents)) \o rest.values],
              record_dataset(Tail(contents), strict))

\* dataset.map(f): f applied to every element in order; an element on which
\* f fails ends the stream with that error after the elements before it.
RECURSIVE MapUntilError(_, _)
MapUntilError(f(_), values) ==
    IF values = <<>> THEN [status |-> "ok", values |-> <<>>]
    ELSE Bind(LAMBDA y :
                  IF ~ y.ok THEN [status |-> y.error, values |-> <<>>]
                  ELSE Bind(LAMBDA rest : [status |-> rest.status,
                                           values |-> <<y>> \o rest.values],
                            MapUntilError(f, Tail(values))),
              f(Head(values)))

----------------------------------------------------------------------------
(* filenames (lines 78-93).  File names are <<kind, number>> pairs.        *)

filenames_unchecked(mode, e) ==
    IF mode = "train"
    THEN [ok |-> TRUE, files |-> [i \in 1 .. NUM_DATA_BATCHES |-> <<"data_batch", i>>]]
    ELSE IF mode = "eval"
    THEN [ok |-> TRUE, files |-> << <<"test_batch", 0>> >>]
    ELSE [ok |-> FALSE, error |-> "ValueError", files |-> <<>>]

filenames(mode, e) ==
    IF ~ e.dataDirExists
    THEN [ok |-> FALSE, error |-> "AssertionError", files |-> <<>>]
    ELSE IF mode = "train"
    THEN [ok |-> TRUE, files |-> [i \in 1 .. NUM_DATA_BATCHES |-> <<"data_batch", i>>]]
    ELSE IF mode = "eval"
    THEN [ok |-> TRUE, files |-> << <<"test_batch", 0>> >>]
    ELSE [ok |-> FALSE, error |-> "ValueError", files |-> <<>>]

\* The training shards of the modelled file system: one record each.
TrainShardDesc(i) ==
    [label |-> i - 1,
     pat |-> IF i % 2 = 1 THEN [a |-> 7, b |-> 3, c |-> 101, s |-> 5]
                          ELSE [a |-> 1, b |-> 33, c |-> 17, s |-> 250]]
TrainShardBytes(i) == EncodeDesc(TrainShardDesc(i))
TrainShardTable == MakeTable(TrainShardBytes, 1 .. NUM_DATA_BATCHES)

\* The bytes of a named file; a file that does not exist reads as "NotFound".
FileContent(name, e) ==
    IF name[1] = "test_batch" THEN FileBytes(e.evalFile) ELSE TrainShardTable[name[2]]

----------------------------------------------------------------------------
(* train_preprocess_fn (lines 122-133) under a given random outcome:       *)
(* crop offset <<oy, ox>> in 0..8 and flip in BOOLEAN.                      *)

\* tf.image.resize_image_with_crop_or_pad to a larger size: centred, zero padded.
PadTo(image, h, w) ==
    [idx \in (0 .. h - 1) \X (0 .. w - 1) \X (0 .. DEPTH - 1) |->
        LET y == idx[1] - (h - HEIGHT) \div 2
            x == idx[2] - (w - WIDTH) \div 2
        IN  IF y >= 0 /\ y < HEIGHT /\ x >= 0 /\ x < WIDTH THEN image[<<y, x, idx[3]>>] ELSE 0]

Crop(image, oy, ox) ==
    [idx \in (0 .. HEIGHT - 1) \X (0 .. WIDTH - 1) \X (0 .. DEPTH - 1) |->
        image[<<idx[1] + oy, idx[2] + ox, idx[3]>>]]

FlipLeftRight(image) ==
    [idx \in (0 .. HEIGHT - 1) \X (0 .. WIDTH - 1) \X (0 .. DEPTH - 1) |->
        image[<<idx[1], WIDTH - 1 - idx[2], idx[3]>>]]

train_preprocess_fn(sample, draw) ==
    LET padded == PadTo(sample.image, HEIGHT + 8, WIDTH + 8)
        cropped == Crop(padded, draw.crop[1], draw.crop[2])
    IN  [image |-> IF draw.flip THEN FlipLeftRight(cropped) ELSE cropped,
         label |-> sample.label]

\* tf.image.per_image_standardization: (x - mean) / max(stddev, 1/sqrt(n)),
\* a deterministic function of the image alone, kept as a term.
per_image_standardization(image) == [op |-> "per_image_standardization", of |-> image]

----------------------------------------------------------------------------
(* Dataset transformations.                                                *)

\* dataset.batch(n): consecutive groups of n.  When the input ends, the
\* group being filled is emitted short; when the input fails, or has not
\* ended, only the full groups are emitted.
Batch(samples, n, ended) ==
    [b \in 1 .. (IF ended THEN CeilDiv(Len(samples), n) ELSE Len(samples) \div n) |->
        [images |-> [i \in 1 .. Min(n, Len(samples) - (b - 1) * n) |->
                        samples[(b - 1) * n + i].image],
         labels |-> [i \in 1 .. Min(n, Len(samples) - (b - 1) * n) |->
                        samples[(b - 1) * n + i].label]]]

\* dataset.repeat(): the passes one after the other, without end; the
\* element at position p (1-based) of the repeated stream.
RepeatAt(values, p) == values[((p - 1) % Len(values)) + 1]

\* buffer_size = int(NUM_EXAMPLES_PER_EPOCH_FOR_TRAIN * 0.4) + 3 * batch_size.
ShuffleBufferSize(batch_size) ==
    (NUM_EXAMPLES_PER_EPOCH_FOR_TRAIN * 4) \div 10 + 3 * batch_size

\* dataset.shuffle(buffer_size): the j-th element emitted is drawn from a
\* buffer holding buffer_size of the first buffer_size + j - 1 elements not
\* emitted before.  order[j] is the stream position of the j-th element.
ValidShuffle(order, buffer_size) ==
    /\ \A j \in 1 .. Len(order) : order[j] >= 1 /\ order[j] <= buffer_size + j - 1
    /\ \A j, k \in 1 .. Len(order) : j # k => order[j] # order[k]

----------------------------------------------------------------------------
(* input_fn (lines 136-173).  rnd is the outcome of the random source:     *)
(* rnd.draws[p], the crop offset and the flip drawn for the element at     *)
(* position p of the repeated stream, and rnd.order, the positions of the  *)
(* elements the shuffle emits, in order.  The training stream never ends;  *)
(* the model keeps the full batches of its first Len(rnd.order) elements.  *)
(* The result: status, the exception raised while the pipeline is built    *)
(* ("ok" when none); datasets, the record streams constructed; runtime,    *)
(* the status the iterator ends with ("ok" at the end of the data,         *)
(* "unending" when there is none); batches, what it yields before.         *)

\* The maps after the decoder when training: every element of the repeated
\* stream gets its own crop and flip, then the shuffle picks the elements.
Augment(samples, training, rnd) ==
    IF training
    THEN [j \in 1 .. Len(rnd.order) |->
             train_preprocess_fn(RepeatAt(samples, rnd.order[j]), rnd.draws[rnd.order[j]])]
    ELSE samples

Standardize(samples) ==
    [i \in 1 .. Len(samples) |->
        [image |-> per_image_standardization(samples[i].image),
         label |-> samples[i].label]]

\* A training stream whose first pass is empty or fails ends there: repeat()
\* stops on an empty pass and an error ends the iterator (the training
\* shards of the modelled file system are whole and not empty).
Pipeline(mode, training, batch_size, e, rnd) ==
    Bind(LAMBDA names :
        IF ~ names.ok
        THEN [status |-> names.error, datasets |-> 0, runtime |-> "none", batches |-> <<>>]
        ELSE
        Bind(LAMBDA dataset :
            Bind(LAMBDA parsed :
                Bind(LAMBDA runtime :
                    Bind(LAMBDA samples :
                        [status |-> "ok",
                         datasets |-> 1,
                         runtime |-> runtime,
                         batches |-> Batch(samples, batch_size, runtime = "ok")],
                        Standardize(Augment(parsed.values, runtime = "unending", rnd))),
                    IF dataset.status # "ok" THEN dataset.status
                    ELSE IF parsed.status # "ok" THEN parsed.status
                    ELSE IF training /\ parsed.values # <<>> THEN "unending"
                    ELSE "ok"),
                MapUntilError(dataset_parser, dataset.values)),
            record_dataset([i \in 1 .. Len(names.files) |-> FileContent(names.files[i], e)],
                           e.strict)),
        filenames(mode, e))

\* input_fn taking the training branches in every mode.
input_fn_always_training(mode, batch_size, e, rnd) ==
    Pipeline(mode, TRUE, batch_size, e, rnd)

input_fn(mode, batch_size, e, rnd) ==
    Pipeline(mode, mode = "train", batch_size, e, rnd)

\* Outcomes of the random source over the first StreamPositions elements
\* of the training stream.
StreamPositions == 2 * MaxBatchSize

ShuffleOrders ==
    {[j \in 1 .. StreamPositions |-> j],
     [j \in 1 .. StreamPositions |-> IF j % 2 = 1 THEN j + 1 ELSE j - 1],
     [j \in 1 .. StreamPositions |-> StreamPositions + 1 - j]}

Draws ==
    {[p \in 1 .. StreamPositions |-> [crop |-> <<4, 4>>, flip |-> FALSE]],
     [p \in 1 .. StreamPositions |->
         IF p % 2 = 1 THEN [crop |-> <<0, 0>>, flip |-> FALSE]
                      ELSE [crop |-> <<8, 3>>, flip |-> FALSE]],
     [p \in 1 .. StreamPositions |->
         [crop |-> <<p % 9, (2 * p) % 9>>, flip |-> p % 2 = 0]]}

Rnds == [order : ShuffleOrders, draws : Draws]
RndA ==
    [order |-> [j \in 1 .. StreamPositions |-> j],
     draws |-> [p \in 1 .. StreamPositions |-> [crop |-> <<4, 4>>, flip |-> FALSE]]]
RndB ==
    [order |-> [j \in 1 .. StreamPositions |-> StreamPositions + 1 - j],
     draws |-> [p \in 1 .. StreamPositions |->
                   [crop |-> <<p % 9, (2 * p) % 9>>, flip |-> p % 2 = 0]]]

----------------------------------------------------------------------------
(* The learning-rate schedule (lines 62, 69, 209-213).                     *)
(*                                                                         *)
(* global_step is an int64 variable.  A 64-bit step x is the pair          *)
(* [hi, lo] with x = hi * 2^16 + lo and 0 <= lo < 2^16, so that steps      *)
(* beyond 2^31 can be written.  Rates are exact rationals with the         *)
(* denominator RateDenominator: 0.1 * batch_size / 128 is                  *)
(* batch_size * 1000 / 1280000.                                            *)

Word == 65536
RateDenominator == 1280000

Int64(n) == [hi |-> n \div Word, lo |-> n % Word]

\* tf.cast(x, tf.int32) of an int64: the low 32 bits, read as two's complement.
CastInt32(x) ==
    LET h == x.hi % Word
    IN  IF h >= Word \div 2 THEN (h - Word) * Word + x.lo ELSE h * Word + x.lo

\* int(_BATCHES_PER_EPOCH * epoch) with _BATCHES_PER_EPOCH the true quotient
\* NUM_EXAMPLES_PER_EPOCH_FOR_TRAIN / batch_size: the product truncated.
Boundary(batch_size, epoch) == (NUM_EXAMPLES_PER_EPOCH_FOR_TRAIN * epoch) \div batch_size

boundaries(batch_size) ==
    <<Boundary(batch_size, 100), Boundary(batch_size, 150), Boundary(batch_size, 200)>>

\* _INITIAL_LEARNING_RATE * decay for decay in [1, 0.1, 0.01, 0.001].
values(batch_size) ==
    <<batch_size * 1000, batch_size * 100, batch_size * 10, batch_size * 1>>

\* tf.train.piecewise_constant(x, b, v): v[1] when x <= b[1], v[i+1] when
\* b[i] < x <= b[i+1], the last value when x > the last boundary.
piecewise_constant(x, b, v) ==
    IF x <= b[1] THEN v[1]
    ELSE IF x > b[3] THEN v[4]
    ELSE IF x > b[1] /\ x <= b[2] THEN v[2]
    ELSE IF x > b[2] /\ x <= b[3] THEN v[3]
    ELSE v[1]

learning_rate(batch_size, global_step) ==
    piecewise_constant(CastInt32(global_step), boundaries(batch_size), values(batch_size))

----------------------------------------------------------------------------
(* The Estimator and the driver (main, lines 246-273; cifar10_model_fn,    *)
(* lines 176-243).                                                         *)
(*                                                                         *)
(* ModelState is (params, stats, global_step): params and stats[l] are     *)
(* version numbers, raised by one by every update applied to them.         *)
(* Estimator.train builds a graph and a session, restores ModelState from  *)
(* the latest checkpoint of model_dir or initializes it, runs train steps, *)
(* and saves a checkpoint when it ends; Estimator.evaluate builds its own  *)
(* graph and session, restores the latest checkpoint, runs the metric      *)
(* update ops over the whole input and returns the metric values and the   *)
(* global step.  Local (metric) variables are initialized with every       *)
(* session and are not part of a checkpoint.                               *)

BNLayers == 1 .. NumBNLayers

NoCheckpoint ==
    [exists |-> FALSE, params |-> 0, stats |-> [l \in BNLayers |-> 0], global_step |-> 0]

\* A checkpoint left in model_dir by an earlier run of the program.
PriorCheckpoint ==
    [exists |-> TRUE, params |-> 7, stats |-> [l \in BNLayers |-> 7], global_step |-> 7]

ModelState(x) == [params |-> x.params, stats |-> x.stats, global_step |-> x.global_step]

NoSession ==
    [mode |-> "none", params |-> 0, stats |-> [l \in BNLayers |-> 0], global_step |-> 0,
     running |-> FALSE, pending |-> {}, stepsLeft |-> 0, iter |-> 0,
     acc |-> [total |-> 0, count |-> 0], stream |-> <<>>, runtime |-> "none", lr |-> 0]

\* range(FLAGS.train_steps // FLAGS.steps_per_eval) (line 253).
NumCyclesRoundedUp(f) == CeilDiv(f.train_steps, f.steps_per_eval)
NumCycles(f) == f.train_steps \div f.steps_per_eval

\* The session's variables when a train call starts: the latest checkpoint
\* when there is one, fresh values otherwise.
AlwaysInitialize(c) == ModelState(NoCheckpoint)
RestoreOrInitialize(c) == IF c.exists THEN ModelState(c) ELSE ModelState(NoCheckpoint)

\* train(steps = n): n more steps, whatever the global step restored
\* (max_steps = n would stop at global step n).
StepsToRunAsMaxSteps(n, global_step) == IF n > global_step THEN n - global_step ELSE 0
StepsToRun(n, global_step) == n

\* cifar10_model_fn by mode: what the returned EstimatorSpec holds, and the
\* training flag given to the network.
cifar10_model_fn(mode) ==
    [is_training |-> mode = "train",
     predictions |-> TRUE,
     loss |-> mode # "predict",
     train_op |-> mode = "train",
     eval_metric_ops |-> mode # "predict"]

\* tf.control_dependencies(update_ops) around optimizer.minimize (lines
\* 224-226): the train op may run once no update op of the step is pending.
NoControlDependencies(pending) == TRUE
ControlDependenciesDone(pending) == pending = {}

\* tf.argmax(v, axis=1) of one row: the first index holding the maximum.
Argmax(v) ==
    CHOOSE i \in DOMAIN v :
        /\ \A j \in DOMAIN v : v[j] <= v[i]
        /\ \A j \in DOMAIN v : j < i => v[j] < v[i]

\* tf.metrics.accuracy (lines 230-231): total and count are local variables;
\* the update op adds the batch's matches and size, the value is
\* total / count, and 0 when count is 0.
Matches(labels, classes) ==
    Cardinality({i \in 1 .. Len(labels) : Argmax(labels[i]) = classes[i]})

AccuracyOfLastBatchOnly(acc, labels, classes) ==
    [total |-> Matches(labels, classes), count |-> Len(labels)]
AccuracyUpdate(acc, labels, classes) ==
    [total |-> acc.total + Matches(labels, classes), count |-> acc.count + Len(labels)]

AccuracyValue(acc) == IF acc.count = 0 THEN <<0, 1>> ELSE <<acc.total, acc.count>>

\* The network (resnet_model, outside this file) maps a batch and the
\* ModelState to logits; tf.argmax(logits, axis=1) is the predicted class.
\* It is a deterministic function, here one of three: always the labelled
\* class, never the labelled class, or one that depends on the parameters
\* and on the position of the sample in the batch.
Networks == {"exact", "off", "mixed"}

Network(net, ms, labels) ==
    [i \in 1 .. Len(labels) |->
        IF net = "exact" \/ (net = "mixed" /\ (i + ms.params) % 2 = 0)
        THEN Argmax(labels[i])
        ELSE (Argmax(labels[i]) + 1) % NUM_CLASSES]

\* LoggingTensorHook(every_n_iter=100) (lines 260-261): the logged tensors,
\* train_accuracy among them, are fetched on iterations 0, 100, 200, ...
every_n_iter == 100
Logged(iter) == iter % every_n_iter = 0

\* The random outcome of the driver's runs over the first n elements of the
\* training stream: centred crops, no flip, the elements in stream order.
DriverRnd(n) ==
    [order |-> [j \in 1 .. n |-> j],
     draws |-> [p \in 1 .. n |-> [crop |-> <<4, 4>>, flip |-> FALSE]]]

\* The Estimator takes OutOfRange from the iterator for the end of the
\* input; any other error ends the call with that error.
StreamFails(status) == status \notin {"ok", "OutOfRange", "unending"}

\* The eval files of the driver's runs: prefixes of one sequence of records.
DriverEvalFiles ==
    {f \in FileDescs :
        \A i \in 1 .. Len(f.recs) :
            f.recs[i] = IF i % 2 = 1
                        THEN [label |-> 0, pat |-> [a |-> 7, b |-> 3, c |-> 101, s |-> 5]]
                        ELSE [label |-> NUM_CLASSES - 1, pat |-> [a |-> 1, b |-> 33, c |-> 17, s |-> 250]]}

\* What a call of the Estimator sees of input_fn(mode): whether building the
\* pipeline raised, how many datasets it built, how the iterator ends, and
\* the labels of the batches; of the training stream, its first `steps`
\* batches.
DriverInput(mode, batch_size, steps, e) ==
    Bind(LAMBDA inp :
            [status |-> inp.status, datasets |-> inp.datasets, runtime |-> inp.runtime,
             labels |-> [b \in 1 .. Len(inp.batches) |-> inp.batches[b].labels]],
         input_fn(mode, batch_size, e, DriverRnd(batch_size * steps)))

Fail(error) ==
    /\ pc' = "failed"
    /\ ghost' = [ghost EXCEPT !.error = error]
    /\ sess' = NoSession
    /\ UNCHANGED <<flags, env, cycle, ckpt, results, phases, fn>>

\* cifar_classifier.train(...) is entered (lines 263-267): input_fn builds
\* the pipeline, then the model function builds the graph, then the session
\* is created.
TrainBegin ==
    /\ pc = "loop"
    /\ cycle < NumCycles(flags)
    /\ LET inp == DriverInput("train", flags.batch_size, flags.steps_per_eval, env)
           ms == RestoreOrInitialize(ckpt)
       IN  IF inp.status # "ok" THEN Fail(inp.status)
           ELSE /\ pc' = "training"
                /\ sess' = [NoSession EXCEPT
                               !.mode = "train",
                               !.params = ms.params, !.stats = ms.stats,
                               !.global_step = ms.global_step,
                               !.stepsLeft = StepsToRun(flags.steps_per_eval, ms.global_step),
                               !.stream = inp.labels,
                               !.runtime = inp.runtime]
                /\ phases' = Append(phases, "Training")
                /\ ghost' = [ghost EXCEPT !.pipelines = @ + inp.datasets]
                /\ UNCHANGED <<flags, env, cycle, ckpt, results, fn>>

\* One session.run of the train op starts: the batch is pulled, the forward
\* pass computes the logits and leaves one statistics update per
\* normalization layer to run; the rate is read from the schedule.  On a
\* logged iteration the accuracy update op runs too.
StepForward ==
    /\ pc = "training" /\ ~ sess.running /\ sess.stepsLeft > 0
    /\ cifar10_model_fn(sess.mode).train_op
    /\ sess.stream # <<>>
    /\ LET labels == Head(sess.stream)
           classes == Network(env.network, ModelState(sess), labels)
       IN sess' = [sess EXCEPT
                      !.running = TRUE,
                      !.stream = Tail(@),
                      !.pending = IF cifar10_model_fn(sess.mode).is_training
                                  THEN BNLayers ELSE {},
                      !.lr = learning_rate(flags.batch_size, Int64(sess.global_step)),
                      !.acc = IF Logged(sess.iter)
                              THEN AccuracyUpdate(@, labels, classes)
                              ELSE @]
    /\ UNCHANGED <<flags, env, pc, cycle, ckpt, results, phases, ghost, fn>>

\* The running-statistics update op of one normalization layer runs.
RunUpdateOp ==
    /\ pc = "training" /\ sess.running
    /\ \E l \in sess.pending :
          sess' = [sess EXCEPT !.stats[l] = @ + 1, !.pending = @ \ {l}]
    /\ UNCHANGED <<flags, env, pc, cycle, ckpt, results, phases, ghost, fn>>

\* optimizer.minimize(loss, global_step): the parameters are updated and
\* global_step is incremented; the step is complete.
ApplyGradients ==
    /\ pc = "training" /\ sess.running
    /\ ControlDependenciesDone(sess.pending)
    /\ sess' = [sess EXCEPT !.params = @ + 1, !.global_step = @ + 1,
                            !.running = FALSE, !.stepsLeft = @ - 1, !.iter = @ + 1]
    /\ ghost' = [ghost EXCEPT !.trainSteps = @ + 1,
                              !.pendingAtApply = @ \cup sess.pending]
    /\ UNCHANGED <<flags, env, pc, cycle, ckpt, results, phases, fn>>

\* The checkpoint saver hook saves between steps (at the start, on a timer).
SaveCheckpoint ==
    /\ pc = "training" /\ ~ sess.running /\ sess.stepsLeft > 0
    /\ ckpt' = [exists |-> TRUE, params |-> sess.params, stats |-> sess.stats,
                global_step |-> sess.global_step]
    /\ ckpt' # ckpt
    /\ UNCHANGED <<flags, env, pc, cycle, sess, results, phases, ghost, fn>>

\* train returns: the final checkpoint is saved and the session closed.
TrainEnd ==
    /\ pc = "training" /\ ~ sess.running /\ sess.stepsLeft = 0
    /\ ckpt' = [exists |-> TRUE, params |-> sess.params, stats |-> sess.stats,
                global_step |-> sess.global_step]
    /\ sess' = NoSession
    /\ pc' = "between"
    /\ ghost' = [ghost EXCEPT !.lastTrained = ModelState(sess)]
    /\ UNCHANGED <<flags, env, cycle, results, phases, fn>>

\* cifar_classifier.evaluate(...) is entered (lines 270-272): the pipeline
\* and the graph are built, the latest checkpoint restored, the metric
\* variables initialized.  The labels of the batches are kept; the images go
\* to the network.
EvalBegin ==
    /\ pc = "between"
    /\ \E inp \in {DriverInput("eval", flags.batch_size, flags.steps_per_eval, env)} :
           IF inp.status # "ok" THEN Fail(inp.status)
           ELSE /\ pc' = "evaluating"
                /\ sess' = [NoSession EXCEPT
                               !.mode = "eval",
                               !.params = ckpt.params, !.stats = ckpt.stats,
                               !.global_step = ckpt.global_step,
                               !.stream = inp.labels,
                               !.runtime = inp.runtime]
                /\ phases' = Append(phases, "Evaluating")
                /\ ghost' = [ghost EXCEPT !.pipelines = @ + inp.datasets,
                                          !.passMatches = 0, !.passSamples = 0]
                /\ UNCHANGED <<flags, env, cycle, ckpt, results, fn>>

\* One batch is evaluated: the network predicts a class for every sample and
\* the accuracy update op runs.  No train op and no statistics update exists
\* in this mode.
EvalBatch ==
    /\ pc = "evaluating" /\ sess.stream # <<>>
    /\ cifar10_model_fn(sess.mode).eval_metric_ops
    /\ LET labels == Head(sess.stream)
           classes == Network(env.network, ModelState(sess), labels)
       IN     /\ sess' = [sess EXCEPT
                             !.stream = Tail(@),
                             !.pending = IF cifar10_model_fn(sess.mode).is_training
                                         THEN BNLayers ELSE {},
                             !.acc = AccuracyUpdate(@, labels, classes)]
              /\ ghost' = [ghost EXCEPT
                              !.passSamples = @ + Len(labels),
                              !.passMatches = @ + Cardinality(
                                  {i \in 1 .. Len(labels) :
                                      \E k \in 0 .. NUM_CLASSES - 1 :
                                          /\ labels[i][k] = 1 /\ classes[i] = k})]
    /\ UNCHANGED <<flags, env, pc, cycle, ckpt, results, phases, fn>>

\* The input is exhausted: evaluate returns the EvalResult, main prints it
\* and the loop goes on.
EvalEnd ==
    /\ pc = "evaluating" /\ sess.stream = <<>> /\ ~ StreamFails(sess.runtime)
    /\ results' = Append(results, [accuracy |-> AccuracyValue(sess.acc),
                                   loss |-> "mean loss",
                                   global_step |-> sess.global_step])
    /\ ghost' = [ghost EXCEPT !.passes = Append(@, <<ghost.passMatches, ghost.passSamples>>)]
    /\ sess' = NoSession
    /\ cycle' = cycle + 1
    /\ pc' = "loop"
    /\ UNCHANGED <<flags, env, ckpt, phases, fn>>

\* The iterator ended with an error: evaluate raises it.
EvalFail ==
    /\ pc = "evaluating" /\ sess.stream = <<>> /\ StreamFails(sess.runtime)
    /\ Fail(sess.runtime)

\* The for loop is exhausted: main returns.
Finish ==
    /\ pc = "loop"
    /\ cycle >= NumCycles(flags)
    /\ pc' = "done"
    /\ UNCHANGED <<flags, env, cycle, ckpt, sess, results, phases, ghost, fn>>

NoGhost(c) ==
    [pipelines |-> 0, trainSteps |-> 0, error |-> "none", ckpt0 |-> c,
     pendingAtApply |-> {}, lastTrained |-> ModelState(NoCheckpoint),
     passMatches |-> 0, passSamples |-> 0, passes |-> <<>>]

Init ==
    /\ flags \in [train_steps : 1 .. MaxTrainSteps, steps_per_eval : 1 .. MaxStepsPerEval,
                  batch_size : 1 .. MaxBatchSize]
    /\ env \in [dataDirExists : BOOLEAN, strict : BOOLEAN, evalFile : DriverEvalFiles,
                network : Networks]
    /\ ckpt \in {NoCheckpoint, PriorCheckpoint}
    /\ pc = "loop"
    /\ cycle = 0
    /\ sess = NoSession
    /\ results = <<>>
    /\ phases = <<>>
    /\ ghost = NoGhost(ckpt)
    /\ fn = [op |-> "idle"]

Next ==
    \/ TrainBegin \/ StepForward \/ RunUpdateOp \/ ApplyGradients \/ SaveCheckpoint
    \/ TrainEnd \/ EvalBegin \/ EvalBatch \/ EvalEnd \/ EvalFail \/ Finish

Spec == Init /\ [][Next]_vars

\* main is one thread: whenever a step of the program can be taken, one is.
FairSpec == Spec /\ WF_vars(Next)

----------------------------------------------------------------------------
(* Properties of the driver (Spec, FairSpec).                              *)

\* The ModelState model_dir held when the program started.
InitialModelState == ModelState(ghost.ckpt0)

CyclesExpected == flags.train_steps \div flags.steps_per_eval

PhasesAlternate ==
    \A i \in 1 .. Len(phases) :
        phases[i] = IF i % 2 = 1 THEN "Training" ELSE "Evaluating"

DriverCyclesSafety ==
    /\ PhasesAlternate
    /\ Len(phases) <= 2 * CyclesExpected
    /\ Len(results) <= CyclesExpected
    /\ (pc = "training") = (sess.mode = "train")
    /\ (pc = "evaluating") = (sess.mode = "eval")
    /\ pc = "training" => Len(phases) = 2 * cycle + 1
    /\ pc = "evaluating" => Len(phases) = 2 * cycle + 2
    /\ pc = "done" =>
          /\ cycle = CyclesExpected
          /\ Len(phases) = 2 * CyclesExpected
          /\ Len(results) = CyclesExpected
          /\ phases # <<>> => phases[Len(phases)] = "Evaluating"

\* C1: main runs exactly floor(train_steps / steps_per_eval) cycles and then
\* ends; every cycle is one Training run followed by one Evaluating pass, so
\* the phases alternate Training, Evaluating, ..., a training run and an
\* evaluation pass are never active together, and the run ends right after
\* an Evaluating pass (or at once when there are zero cycles).  A run that
\* raises ends early, never late.
C1_DriverCycles ==
    /\ [] DriverCyclesSafety
    /\ <>[] (pc \in {"done", "failed"})

\* A run of three cycles has ended.
C1_Witness ==
    /\ pc = "done"
    /\ CyclesExpected = 3
    /\ phases = <<"Training", "Evaluating", "Training", "Evaluating", "Training", "Evaluating">>
    /\ Len(results) = 3

\* C2: global_step is raised by one by every train step and by nothing else,
\* every Training phase runs exactly steps_per_eval train steps, and the
\* EvalResult of the k-th cycle reports the initial global_step plus
\* k * steps_per_eval: k * steps_per_eval from a fresh ModelState.
C2_GlobalStepCountsTrainSteps ==
    /\ pc = "training" =>
          sess.global_step = InitialModelState.global_step + ghost.trainSteps
    /\ pc = "training" =>
          ghost.trainSteps + sess.stepsLeft = (cycle + 1) * flags.steps_per_eval
    /\ pc \in {"between", "evaluating"} =>
          /\ ghost.trainSteps = (cycle + 1) * flags.steps_per_eval
          /\ ckpt.global_step = InitialModelState.global_step + ghost.trainSteps
    /\ pc \in {"loop", "done"} => ghost.trainSteps = cycle * flags.steps_per_eval
    /\ pc = "evaluating" => sess.global_step = ckpt.global_step
    /\ ckpt.global_step >= InitialModelState.global_step
    /\ \A k \in 1 .. Len(results) :
          /\ results[k].global_step =
                InitialModelState.global_step + k * flags.steps_per_eval
          /\ ~ ghost.ckpt0.exists => results[k].global_step = k * flags.steps_per_eval

\* From a fresh ModelState and steps_per_eval = 2 the first EvalResult
\* reports global_step 2 and the second reports 4.
C2_Witness ==
    /\ ~ ghost.ckpt0.exists
    /\ Len(results) = 2
    /\ flags.steps_per_eval = 2
    /\ results[1].global_step = 2
    /\ results[2].global_step = 4

\* C3: ModelState is changed by train steps only.  An evaluation pass leaves
\* it as the training run before it left it, every batch of the pass sees
\* that one ModelState, and the next training run starts from it; the graphs
\* of the EVAL and PREDICT modes hold no train op and no statistics update.
C3_ModelStateChangedByTrainStepsOnly ==
    /\ pc \in {"between", "evaluating"} => ModelState(ckpt) = ghost.lastTrained
    /\ pc = "evaluating" => ModelState(sess) = ghost.lastTrained
    /\ (pc \in {"loop", "done"} /\ cycle > 0) => ModelState(ckpt) = ghost.lastTrained
    /\ (pc = "training" /\ cycle > 0 /\ ~ sess.running
            /\ ghost.trainSteps = cycle * flags.steps_per_eval) =>
          ModelState(sess) = ghost.lastTrained
    /\ (pc = "training" /\ cycle = 0 /\ ~ sess.running /\ ghost.trainSteps = 0) =>
          ModelState(sess) = InitialModelState
    /\ pc = "training" => sess.params = InitialModelState.params + ghost.trainSteps
    /\ \A mode \in {"eval", "predict"} :
          /\ ~ cifar10_model_fn(mode).train_op
          /\ ~ cifar10_model_fn(mode).is_training
    /\ sess.mode = "eval" => sess.pending = {}

\* The second training run has started, from the ModelState the first left.
C3_Witness ==
    /\ pc = "training" /\ cycle = 1 /\ ~ sess.running
    /\ ghost.trainSteps = flags.steps_per_eval
    /\ ghost.lastTrained.params > InitialModelState.params
    /\ ModelState(sess) = ghost.lastTrained

DataDirMissingLeavesNoTrace ==
    ~ env.dataDirExists =>
        /\ pc \in {"loop", "failed", "done"}
        /\ pc = "failed" => ghost.error = "AssertionError"
        /\ ghost.pipelines = 0
        /\ ghost.trainSteps = 0
        /\ ckpt = ghost.ckpt0
        /\ sess = NoSession
        /\ results = <<>> /\ phases = <<>>

\* C5 (as claimed): when the data directory does not exist the run fails,
\* with the error filenames raises, before any pipeline is built, and
\* nothing is created: no session, no checkpoint, no train step.
C5_MissingDataDirAlwaysFails ==
    /\ DataDirMissingLeavesNoTrace
    /\ ~ env.dataDirExists => pc # "done"

\* C5 (amended): when the data directory does not exist and at least one
\* cycle is to run, the run fails with the error filenames raises, before
\* any pipeline is built and with nothing created; a run of zero cycles
\* never calls filenames and ends normally.
C5_MissingDataDirFailsFirstCycle ==
    /\ DataDirMissingLeavesNoTrace
    /\ ~ env.dataDirExists =>
          /\ pc = "done" => CyclesExpected = 0
          /\ pc = "failed" => CyclesExpected > 0 /\ cycle = 0
          /\ (pc = "loop" /\ CyclesExpected > 0) => ENABLED TrainBegin

\* The run failed in filenames, with a checkpoint of an earlier run in place.
C5_Witness ==
    /\ ~ env.dataDirExists
    /\ pc = "failed"
    /\ ghost.error = "AssertionError"
    /\ ghost.ckpt0.exists

\* C9: in every train step the statistics updates of all normalization
\* layers are applied before the optimizer's update of the parameters and of
\* global_step: no train op runs while an update of its batch is pending, so
\* between steps every layer has been updated once per train step.
C9_StatisticsUpdatedBeforeOptimizer ==
    /\ ghost.pendingAtApply = {}
    /\ (pc = "training" /\ ~ sess.running) =>
          /\ sess.pending = {}
          /\ \A l \in BNLayers :
                sess.stats[l] = InitialModelState.stats[l] + ghost.trainSteps
    /\ (pc = "training" /\ sess.running) =>
          \A l \in BNLayers :
              sess.stats[l] = InitialModelState.stats[l] + ghost.trainSteps
                                  + (IF l \in sess.pending THEN 0 ELSE 1)

\* Two train steps have completed, each after the updates of all layers.
C9_Witness ==
    /\ pc = "training" /\ ~ sess.running
    /\ ghost.trainSteps = 2
    /\ \A l \in BNLayers : sess.stats[l] = InitialModelState.stats[l] + 2

\* C10: the accuracy of an EvalResult is the number of samples of that pass
\* whose labelled class is the predicted class over the number of samples of
\* that pass, whatever was counted by training steps or by earlier passes:
\* 1 when every prediction matches, 0 when none does (and 0 for a pass
\* without samples).
C10_AccuracyIsPerPassRatio ==
    /\ Len(ghost.passes) = Len(results)
    /\ \A k \in 1 .. Len(results) :
          LET accuracy == results[k].accuracy
              matches == ghost.passes[k][1]
              samples == ghost.passes[k][2]
          IN  /\ accuracy[2] > 0
              /\ samples > 0 => accuracy = <<matches, samples>>
              /\ samples = 0 => accuracy[1] = 0
              /\ (samples > 0 /\ matches = samples) => accuracy[1] = accuracy[2]
              /\ matches = 0 => accuracy[1] = 0

\* Two passes over three samples in batches of two gave two different
\* accuracies, neither 0 nor 1.
C10_Witness ==
    /\ Len(results) = 2
    /\ flags.batch_size = 2
    /\ ghost.passes[1][2] = 3 /\ ghost.passes[2][2] = 3
    /\ results[1].accuracy # results[2].accuracy
    /\ results[1].accuracy[1] \in {1, 2}
    /\ results[2].accuracy[1] \in {1, 2}

----------------------------------------------------------------------------
(* Function-level specification of the record layer.                       *)

DriverOff ==
    /\ flags = [train_steps |-> 1, steps_per_eval |-> 1, batch_size |-> 1]
    /\ env = [dataDirExists |-> TRUE, strict |-> FALSE, evalFile |-> [recs |-> <<>>, extra |-> 0],
              network |-> "exact"]
    /\ pc = "off"
    /\ cycle = 0
    /\ ckpt = NoCheckpoint
    /\ sess = NoSession
    /\ results = <<>>
    /\ phases = <<>>
    /\ ghost = NoGhost(NoCheckpoint)

CallDecode ==
    /\ fn.op = "idle"
    /\ \E v \in ValueDescs :
          fn' = [op |-> "decode", in |-> v, out |-> dataset_parser(ValueBytes(v))]
    /\ UNCHANGED driverVars

CallDecodePair ==
    /\ fn.op = "idle"
    /\ \E d1 \in RecordDescs, d2 \in RecordDescs :
          fn' = [op |-> "decode2", in1 |-> d1, in2 |-> d2,
                 out1 |-> dataset_parser(RecordOf(d1)),
                 out2 |-> dataset_parser(RecordOf(d2))]
    /\ UNCHANGED driverVars

ReadFile ==
    /\ fn.op = "idle"
    /\ \E f \in FileDescs, strict \in BOOLEAN :
          LET ds == record_dataset(<<FileBytes(f)>>, strict)
              parsed == MapUntilError(dataset_parser, ds.values)
          IN  fn' = [op |-> "read", in |-> f, strict |-> strict,
                     status |-> IF ds.status # "ok" THEN ds.status ELSE parsed.status,
                     out |-> parsed.values]
    /\ UNCHANGED driverVars

RecordInit == DriverOff /\ fn = [op |-> "idle"]
RecordNext == CallDecode \/ CallDecodePair \/ ReadFile
RecordSpec == RecordInit /\ [][RecordNext]_vars

----------------------------------------------------------------------------
(* Properties of the record layer (RecordSpec).                            *)

ValidRecord(d) == d.label < NUM_CLASSES

\* C7: for every valid record (a label byte below NUM_CLASSES followed by
\* HEIGHT*WIDTH*DEPTH pixel bytes) the decoder returns the one-hot vector of
\* the label byte and the image with image[h, w, c] = payload[c*H*W + h*W + w];
\* decoding a record encoded from a label and an image returns that label and
\* that image; two distinct valid records decode to distinct results.
C7_DecodeIsLayoutBijection ==
    /\ (fn.op = "decode" /\ fn.in.len = record_bytes /\ ValidRecord(fn.in.rec)) =>
          LET bytes == ValueBytes(fn.in)
          IN  /\ fn.out.ok
              /\ DOMAIN fn.out.label = 0 .. NUM_CLASSES - 1
              /\ \A i \in 0 .. NUM_CLASSES - 1 :
                    fn.out.label[i] = IF i = bytes[1] THEN 1 ELSE 0
              /\ DOMAIN fn.out.image =
                    (0 .. HEIGHT - 1) \X (0 .. WIDTH - 1) \X (0 .. DEPTH - 1)
              /\ \A h \in 0 .. HEIGHT - 1, w \in 0 .. WIDTH - 1, c \in 0 .. DEPTH - 1 :
                    fn.out.image[<<h, w, c>>] =
                        bytes[label_bytes + c * HEIGHT * WIDTH + h * WIDTH + w + 1]
              /\ fn.out.image = PatternImage(fn.in.rec.pat)
    /\ (fn.op = "decode2" /\ ValidRecord(fn.in1) /\ ValidRecord(fn.in2)
            /\ RecordOf(fn.in1) # RecordOf(fn.in2)) =>
          /\ fn.out1.ok /\ fn.out2.ok
          /\ <<fn.out1.label, fn.out1.image>> # <<fn.out2.label, fn.out2.image>>

\* A valid record with an image that differs along every axis was decoded.
C7_Witness ==
    /\ fn.op = "decode" /\ fn.in.len = record_bytes /\ ValidRecord(fn.in.rec)
    /\ fn.in.rec.label = NUM_CLASSES - 1
    /\ fn.out.ok
    /\ fn.out.label[NUM_CLASSES - 1] = 1
    /\ fn.out.image[<<1, 0, 0>>] # fn.out.image[<<0, 1, 0>>]
    /\ fn.out.image[<<0, 1, 0>>] # fn.out.image[<<0, 0, 1>>]

\* C8 (as claimed): the decoder fails on every input whose length is not
\* record_bytes, shorter or longer, and a file whose length is not a whole
\* number of records makes the run fail instead of dropping the extra bytes.
C8_LengthMismatchRejected ==
    /\ (fn.op = "decode" /\ fn.in.len # record_bytes) => ~ fn.out.ok
    /\ (fn.op = "read" /\ fn.in.extra % record_bytes # 0) => StreamFails(fn.status)

\* What the decoder does do: it fails on every input shorter than
\* record_bytes, and decodes the first record_bytes bytes of a longer one.
DecodeRejectsShortAcceptsLong ==
    fn.op = "decode" =>
        /\ fn.in.len < record_bytes => ~ fn.out.ok
        /\ fn.in.len >= record_bytes =>
              /\ fn.out.ok
              /\ fn.out = dataset_parser(SubSeq(ValueBytes(fn.in), 1, record_bytes))

----------------------------------------------------------------------------
(* Function-level specification of the input pipeline.                     *)

EnvOf(f, strict, exists) ==
    [dataDirExists |-> exists, strict |-> strict, evalFile |-> f, network |-> "exact"]

BuildEvalTwice ==
    /\ fn.op = "idle"
    /\ \E f \in {g \in FileDescs : g.extra = 0}, bs \in 1 .. MaxBatchSize,
          r \in {<<RndA, RndB>>, <<RndB, RndA>>} :
          fn' = [op |-> "eval2", file |-> f, batch_size |-> bs, rnd |-> r,
                 first |-> input_fn("eval", bs, EnvOf(f, FALSE, TRUE), r[1]),
                 second |-> input_fn("eval", bs, EnvOf(f, FALSE, TRUE), r[2])]
    /\ UNCHANGED driverVars

BuildTrain ==
    /\ fn.op = "idle"
    /\ \E bs \in 1 .. MaxBatchSize, r \in Rnds :
          /\ ValidShuffle(r.order, ShuffleBufferSize(bs))
          /\ fn' = [op |-> "train", batch_size |-> bs, rnd |-> r,
                    out |-> input_fn("train", bs,
                                     EnvOf([recs |-> <<>>, extra |-> 0], FALSE, TRUE), r)]
    /\ UNCHANGED driverVars

PipelineInit == DriverOff /\ fn = [op |-> "idle"]
PipelineNext == BuildEvalTwice \/ BuildTrain
PipelineSpec == PipelineInit /\ [][PipelineNext]_vars

RECURSIVE Flatten(_)
Flatten(batches) ==
    IF batches = <<>> THEN <<>>
    ELSE [i \in 1 .. Len(Head(batches).images) |->
             [image |-> Head(batches).images[i], label |-> Head(batches).labels[i]]]
         \o Flatten(Tail(batches))

\* C6: two independent builds of the evaluation pipeline over the same file of
\* n records yield the same finite sequence of batches; it holds every record
\* of the file exactly once, in file order, decoded and standardized but not
\* augmented; every batch has at most batch_size samples, only the last may be
\* shorter, and there are ceil(n / batch_size) batches.
C6_EvalPipelineRepeatable ==
    fn.op = "eval2" =>
        LET n == Len(fn.file.recs)
            bs == fn.batch_size
            got == fn.first.batches
        IN  /\ fn.first = fn.second
            /\ fn.first.status = "ok" /\ fn.first.runtime = "ok"
            /\ Len(got) = CeilDiv(n, bs)
            /\ \A b \in 1 .. Len(got) :
                  /\ Len(got[b].images) = Len(got[b].labels)
                  /\ Len(got[b].images) <= bs
                  /\ Len(got[b].images) >= 1
                  /\ b < Len(got) => Len(got[b].images) = bs
            /\ Flatten(got) =
                  [i \in 1 .. n |->
                      [image |-> per_image_standardization(PatternImage(fn.file.recs[i].pat)),
                       label |-> [k \in 0 .. NUM_CLASSES - 1 |->
                                     IF k = fn.file.recs[i].label THEN 1 ELSE 0]]]

\* Two builds under different random outcomes of a file of three records, not
\* all alike, batched by two: a full batch and a short last one.
C6_Witness ==
    /\ fn.op = "eval2"
    /\ Len(fn.file.recs) = 3 /\ fn.batch_size = 2
    /\ fn.file.recs[1] # fn.file.recs[2]
    /\ fn.rnd[1] # fn.rnd[2]
    /\ Len(fn.first.batches) = 2
    /\ Len(fn.second.batches[2].images) = 1

----------------------------------------------------------------------------
(* Function-level specification of the schedule.                           *)

ScheduleBatchSizes == {1, 3, 64, 128, 256}

\* Steps around every boundary, the first step, and steps around 2^31.
StepSamples(bs) ==
    {Int64(0), Int64(1)}
    \cup {Int64(boundaries(bs)[i] + d) : i \in 1 .. 3, d \in {-1, 0, 1}}
    \cup {[hi |-> Word \div 2 - 1, lo |-> Word - 1], [hi |-> Word \div 2, lo |-> 0],
          [hi |-> Word \div 2, lo |-> 1]}

CallSchedule ==
    /\ fn.op = "idle"
    /\ \E bs \in ScheduleBatchSizes :
       \E s1 \in StepSamples(bs), s2 \in StepSamples(bs) :
          fn' = [op |-> "schedule", batch_size |-> bs, step1 |-> s1, step2 |-> s2,
                 rate1 |-> learning_rate(bs, s1), rate2 |-> learning_rate(bs, s2)]
    /\ UNCHANGED driverVars

ScheduleInit == DriverOff /\ fn = [op |-> "idle"]
ScheduleNext == CallSchedule
ScheduleSpec == ScheduleInit /\ [][ScheduleNext]_vars

\* Comparisons of a 64-bit step with a number below 2^31.
FitsInt32(x) == x.hi < Word \div 2
StepLess(x, n) == FitsInt32(x) /\ x.hi * Word + x.lo < n
StepGreater(x, n) == ~ FitsInt32(x) \/ x.hi * Word + x.lo > n
StepLeq(x, y) == x.hi < y.hi \/ (x.hi = y.hi /\ x.lo <= y.lo)

\* step < epoch * train_set_size / batch_size, and step > it, over the reals.
BeforeEpoch(x, bs, epoch) ==
    StepLess(x, CeilDiv(NUM_EXAMPLES_PER_EPOCH_FOR_TRAIN * epoch, bs))
AfterEpoch(x, bs, epoch) ==
    StepGreater(x, (NUM_EXAMPLES_PER_EPOCH_FOR_TRAIN * epoch) \div bs)

ScheduleProperties(bs, s1, r1, s2, r2) ==
    /\ BeforeEpoch(s1, bs, 100) => r1 = bs * 1000
    /\ (AfterEpoch(s1, bs, 100) /\ ~ AfterEpoch(s1, bs, 150)) => r1 = bs * 100
    /\ (AfterEpoch(s1, bs, 150) /\ ~ AfterEpoch(s1, bs, 200)) => r1 = bs * 10
    /\ AfterEpoch(s1, bs, 200) => r1 = bs * 1
    /\ StepLeq(s1, s2) => r1 >= r2

\* C4 (as claimed): for a given batch_size the rate depends on the step alone;
\* it is base_rate = batch_size * 1000 / RateDenominator before the 100-epoch
\* boundary, base_rate times 0.1, 0.01, 0.001 after the boundaries of epochs
\* 100, 150, 200, and it never increases with the step.
C4_ScheduleNonIncreasing ==
    fn.op = "schedule" =>
        ScheduleProperties(fn.batch_size, fn.step1, fn.rate1, fn.step2, fn.rate2)

\* The same, for steps that fit in 32 bits.
ScheduleHoldsBelowInt32 ==
    (fn.op = "schedule" /\ FitsInt32(fn.step1) /\ FitsInt32(fn.step2)) =>
        ScheduleProperties(fn.batch_size, fn.step1, fn.rate1, fn.step2, fn.rate2)

=============================================================================
